---- MODULE Spec2Model ----
(***************************************************************************)
(* Model of smart_mover.py: the SmartMover daemon that moves played media  *)
(* files from the cache tier (/mnt/cache) to the array tier (/mnt/user).   *)
(* One behaviour is one run of main(): startup, then check_and_move cycles.*)
(* Paths and item names are sequences of one-character strings, so that    *)
(* substring matching and str.replace are computed as Python computes them.*)
(***************************************************************************)
EXTENDS Integers, Sequences, FiniteSets, TLC

VARIABLES
    pc,               \* position of main()/check_and_move/move_file
    jellyfin_url,     \* self.jellyfin_url: "" or a URL
    jellyfin_api_key, \* self.jellyfin_api_key: "" or a key
    cache_threshold,  \* self.cache_threshold
    fs,               \* file system: path -> "absent" | "partial" | "complete"
    fs0,              \* fs when the current cycle started
    cache_usage,      \* local cache_usage of the current cycle
    usageOk,          \* FALSE when psutil.disk_usage raised in this cycle
    ledgerAttempts,   \* executions of get_played_items' body in this cycle
    ledgerLast,       \* status of the last ledger response in this cycle
    played_items,     \* local played_items
    cache_files,      \* local cache_files
    scans,            \* calls of get_cache_files in this cycle
    i,                \* index of the outer loop (played_items)
    j,                \* index of the inner loop (cache_files)
    moveCalls,        \* source paths move_file was called with in this cycle
    source_path,      \* argument of the current / last move_file call
    dest_path,        \* argument of the current / last move_file call
    mkdirAttempts,    \* executions of move_file's body in the current call
    mkdirLast,        \* result of the last os.makedirs in the current call
    mvResult,         \* result of the os.system mv of the current call
    ret,              \* how the last move_file call ended
    mvRuns,           \* executions of the mv command in this cycle
    moved_count,      \* local moved_count
    outcome           \* last line the cycle logged before returning

vars == <<pc, jellyfin_url, jellyfin_api_key, cache_threshold, fs, fs0,
          cache_usage, usageOk, ledgerAttempts, ledgerLast, played_items,
          cache_files, scans, i, j, moveCalls, source_path, dest_path,
          mkdirAttempts, mkdirLast, mvResult, ret, mvRuns, moved_count,
          outcome>>

----------------------------------------------------------------------------
(* Bounds *)

\* longest Items array the ledger returns
MaxItems == 2

\* most path segments appended to cache_path in the inputs of DestSpec
MaxSegments == 4

----------------------------------------------------------------------------
(* Program constants *)

\* stop_after_attempt(3) of both @retry decorators
MaxAttempts == 3

\* self.cache_path = '/mnt/cache'
cache_path == <<"/", "m", "n", "t", "/", "c", "a", "c", "h", "e">>

\* self.array_path = '/mnt/user'
array_path == <<"/", "m", "n", "t", "/", "u", "s", "e", "r">>

\* the extensions get_cache_files globs for, in the order of the for loop
Extensions == << <<".", "m", "p", "4">>, <<".", "m", "k", "v">>,
                 <<".", "a", "v", "i">>, <<".", "m", "4", "v">> >>

\* default_config["cache_threshold"]
DefaultThreshold == 90

----------------------------------------------------------------------------
(* The environment: files on the cache tier, names in the ledger *)

\* /mnt/cache/TV/Ab.mkv
FileAbMkv == cache_path \o <<"/", "T", "V", "/", "A", "b", ".", "m", "k", "v">>
\* /mnt/cache/ab.mp4
FileAbMp4 == cache_path \o <<"/", "a", "b", ".", "m", "p", "4">>
\* /mnt/cache/b.txt
FileTxt == cache_path \o <<"/", "b", ".", "t", "x", "t">>

MediaPaths == {FileAbMkv, FileAbMp4}
CachePaths == MediaPaths \cup {FileTxt}

NameAb == <<"A", "b">>
NameB == <<"b">>
ItemNames == {NameAb, NameB}

\* the Items arrays a ledger response can carry (each item by its 'Name')
ItemLists == UNION {[1..n -> ItemNames] : n \in 0..MaxItems}

Thresholds == {0, DefaultThreshold}
\* what psutil.disk_usage can do: measure a usage (percent), or raise
Usages == {89, 90}
Measurements == [ok : {TRUE}, percent : Usages] \cup {[ok |-> FALSE, percent |-> 0]}

LedgerStatuses == {"ok", "transient", "auth", "malformed"}
LedgerResponses == [status : LedgerStatuses, Items : ItemLists]
MakedirsResults == {"ok", "transient", "permission", "nospace"}

----------------------------------------------------------------------------
(* Pure functions *)

\* Python: sub in s
Contains(sub, s) ==
    \E k \in 0..(Len(s) - Len(sub)) : SubSeq(s, k + 1, k + Len(sub)) = sub

\* Python: s.endswith(suffix)
EndsWith(s, suffix) ==
    /\ Len(s) >= Len(suffix)
    /\ SubSeq(s, Len(s) - Len(suffix) + 1, Len(s)) = suffix

\* Python: s.startswith(prefix)
StartsWith(s, prefix) ==
    /\ Len(s) >= Len(prefix)
    /\ SubSeq(s, 1, Len(prefix)) = prefix

\* Python: s.replace(old, new), every non-overlapping occurrence, left to right
RECURSIVE Replace(_, _, _)
Replace(s, old, new) ==
    IF Len(s) < Len(old) THEN s
    ELSE IF SubSeq(s, 1, Len(old)) = old
         THEN new \o Replace(SubSeq(s, Len(old) + 1, Len(s)), old, new)
         ELSE <<Head(s)>> \o Replace(Tail(s), old, new)

\* line 123: dest_path = str(cache_file).replace(self.cache_path, self.array_path)
DestPath(p) == Replace(p, cache_path, array_path)

\* str.lower on the letters the paths and names use
Lower(c) == CASE c = "A" -> "a" [] c = "T" -> "t" [] c = "V" -> "v" [] OTHER -> c
LowerSeq(s) == [k \in DOMAIN s |-> Lower(s[k])]

\* line 122: played_item['Name'] in str(cache_file)
Matches_IgnoreCase(name, path) == Contains(LowerSeq(name), LowerSeq(path))
Matches(name, path) == Contains(name, path)

AllPaths == CachePaths \cup {DestPath(p) : p \in MediaPaths}

\* index in Extensions of the extension of p, 0 when it has none of them
ExtIndex(p) ==
    IF \E e \in DOMAIN Extensions : EndsWith(p, Extensions[e])
    THEN CHOOSE e \in DOMAIN Extensions : EndsWith(p, Extensions[e])
    ELSE 0

GetCacheFiles_AnyFile(f) ==
    LET found == {p \in DOMAIN f : /\ f[p] # "absent"
                                   /\ StartsWith(p, cache_path \o <<"/">>)}
    IN {s \in [1..Cardinality(found) -> found] :
          /\ \A a, b \in DOMAIN s : a # b => s[a] # s[b]
          /\ \A a, b \in DOMAIN s : a < b => ExtIndex(s[a]) <= ExtIndex(s[b])}

\* get_cache_files: the lists the scan can return on file system f. Each
\* extension's rglob yields the files under cache_path of that extension,
\* in an order the OS decides; the results are concatenated in loop order.
GetCacheFiles(f) ==
    LET found == {p \in DOMAIN f : /\ f[p] # "absent"
                                   /\ StartsWith(p, cache_path \o <<"/">>)
                                   /\ ExtIndex(p) # 0}
    IN {s \in [1..Cardinality(found) -> found] :
          /\ \A a, b \in DOMAIN s : a # b => s[a] # s[b]
          /\ \A a, b \in DOMAIN s : a < b => ExtIndex(s[a]) <= ExtIndex(s[b])}

\* lines 54-59: the value get_cache_usage_percentage returns
GetCacheUsagePercentage(m) == IF m.ok THEN m.percent ELSE 0

\* line 112: if cache_usage < self.cache_threshold
BelowThreshold_Inverted(u, t) == u > t
BelowThreshold(u, t) == u < t

\* line 78: response.raise_for_status() raises for every non-2xx response
\* (and requests.get raises on timeouts and connection errors)
RaisesForStatus_Missing(resp) == FALSE
RaisesForStatus(resp) == resp.status # "ok"

\* line 96: os.makedirs raises OSError unless the directory could be ensured
MakedirsRaises_Swallowed(r) == FALSE
MakedirsRaises(r) == r # "ok"

\* line 20: all([self.jellyfin_url, self.jellyfin_api_key])
ConfigComplete_Any(url, key) == url # "" \/ key # ""
ConfigComplete(url, key) == url # "" /\ key # ""

\* lines 129-130: the except of check_and_move logs the error and returns,
\* so main's loop goes on to sleep and to the next cycle
AfterCycleError_Propagates == "exited"
AfterCycleError == "idle"

\* tenacity @retry(stop=stop_after_attempt(3)): what happens after an
\* attempt, n being the number of attempts made so far. Every exception is
\* retried; after the last attempt RetryError is raised to the caller.
RetryDecision_OneMore(raised, n) ==
    IF ~raised THEN "return"
    ELSE IF n <= MaxAttempts THEN "retry" ELSE "raise"

RetryDecision(raised, n) ==
    IF ~raised THEN "return"
    ELSE IF n < MaxAttempts THEN "retry" ELSE "raise"

\* line 99: os.system(f'mv "{source_path}" "{dest_path}"'). /mnt/cache and
\* /mnt/user are different mounts, so mv copies and then unlinks. The
\* results: "ok"; "fail" (nothing written); "partial" (the copy stopped
\* part-way); "unremoved" (copied, the source could not be unlinked).
MvResults(f, src, dst) ==
    IF f[src] # "complete" \/ src = dst THEN {"fail"}
    ELSE {"ok", "fail", "partial", "unremoved"}

MvEffect(f, src, dst, r) ==
    CASE r = "ok"        -> [f EXCEPT ![src] = "absent", ![dst] = "complete"]
      [] r = "partial"   -> [f EXCEPT ![dst] = "partial"]
      [] r = "unremoved" -> [f EXCEPT ![dst] = "complete"]
      [] OTHER           -> f

\* lines 99-101: the exit status of os.system is not looked at
MoveFileReturn(r) == TRUE

\* lines 120-122: the positions (a, b) of the nested loops, in loop order
Before(a1, b1, a2, b2) == a1 < a2 \/ (a1 = a2 /\ b1 <= b2)

MatchesFrom_SkipsMoved(items, files, a, b) ==
    {q \in (DOMAIN items) \X (DOMAIN files) :
        /\ Before(a, b, q[1], q[2])
        /\ Matches(items[q[1]], files[q[2]])
        /\ fs[files[q[2]]] # "absent"}

MatchesFrom(items, files, a, b) ==
    {q \in (DOMAIN items) \X (DOMAIN files) :
        /\ Before(a, b, q[1], q[2])
        /\ Matches(items[q[1]], files[q[2]])}

NextMatch(items, files, a, b) ==
    CHOOSE q \in MatchesFrom(items, files, a, b) :
        \A r \in MatchesFrom(items, files, a, b) : Before(q[1], q[2], r[1], r[2])

----------------------------------------------------------------------------
(* State machine *)

NoPath == <<>>

Init ==
    /\ pc = "start"
    /\ jellyfin_url \in {"", "http://jellyfin"}
    /\ jellyfin_api_key \in {"", "key"}
    /\ cache_threshold \in Thresholds
    /\ fs \in {f \in [AllPaths -> {"absent", "complete"}] :
                 /\ f[FileTxt] = "complete"
                 /\ \A p \in AllPaths \ CachePaths : f[p] = "absent"}
    /\ fs0 = fs
    /\ cache_usage = 0
    /\ usageOk = TRUE
    /\ ledgerAttempts = 0
    /\ ledgerLast = "none"
    /\ played_items = <<>>
    /\ cache_files = <<>>
    /\ scans = 0
    /\ i = 1
    /\ j = 1
    /\ moveCalls = <<>>
    /\ source_path = NoPath
    /\ dest_path = NoPath
    /\ mkdirAttempts = 0
    /\ mkdirLast = "none"
    /\ mvResult = "none"
    /\ ret = "none"
    /\ mvRuns = 0
    /\ moved_count = 0
    /\ outcome = "none"

config == <<jellyfin_url, jellyfin_api_key, cache_threshold>>
ledgerVars == <<ledgerAttempts, ledgerLast, played_items>>
scanVars == <<cache_files, scans>>
loopVars == <<i, j, moved_count>>
callVars == <<moveCalls, source_path, dest_path, mkdirAttempts, mkdirLast,
              mvResult, ret>>

\* lines 132-134 and 16-21: mover = SmartMover(); a missing URL or key
\* raises ValueError, main logs it and exits with status 1
Startup ==
    /\ pc = "start"
    /\ pc' = IF ConfigComplete(jellyfin_url, jellyfin_api_key) THEN "idle"
             ELSE "exited"
    /\ UNCHANGED <<config, fs, fs0, cache_usage, usageOk, ledgerVars,
                   scanVars, loopVars, callVars, mvRuns, outcome>>

\* lines 135-136 and 108-114: the loop calls check_and_move, which measures
\* the cache and returns when the usage is below the threshold
CheckPressure ==
    /\ pc = "idle"
    /\ \E m \in Measurements :
         /\ usageOk' = m.ok
         /\ cache_usage' = GetCacheUsagePercentage(m)
         /\ IF BelowThreshold(GetCacheUsagePercentage(m), cache_threshold)
            THEN pc' = "idle" /\ outcome' = "below"
            ELSE pc' = "ledger" /\ outcome' = "none"
    /\ fs0' = fs
    /\ ledgerAttempts' = 0
    /\ ledgerLast' = "none"
    /\ played_items' = <<>>
    /\ cache_files' = <<>>
    /\ scans' = 0
    /\ i' = 1
    /\ j' = 1
    /\ moveCalls' = <<>>
    /\ source_path' = NoPath
    /\ dest_path' = NoPath
    /\ mkdirAttempts' = 0
    /\ mkdirLast' = "none"
    /\ mvResult' = "none"
    /\ ret' = "none"
    /\ mvRuns' = 0
    /\ moved_count' = 0
    /\ UNCHANGED <<config, fs>>

\* lines 61-82 and 116: one execution of get_played_items' body
GetPlayedItems ==
    /\ pc = "ledger"
    /\ \E resp \in LedgerResponses :
         LET n == ledgerAttempts + 1
             d == RetryDecision(RaisesForStatus(resp), n)
         IN /\ ledgerAttempts' = n
            /\ ledgerLast' = resp.status
            /\ played_items' = IF d = "return" THEN resp.Items ELSE <<>>
            /\ pc' = CASE d = "return" -> "scan"
                       [] d = "retry"  -> "ledger"
                       [] OTHER        -> AfterCycleError
            /\ outcome' = IF d = "raise" THEN "error" ELSE outcome
    /\ UNCHANGED <<config, fs, fs0, cache_usage, usageOk, scanVars, loopVars,
                   callVars, mvRuns>>

\* lines 84-89 and 117-119: get_cache_files, then moved_count = 0
ScanCache ==
    /\ pc = "scan"
    /\ scans' = scans + 1
    /\ \/ /\ cache_files' \in GetCacheFiles(fs)
          /\ pc' = "loop"
          /\ UNCHANGED outcome
       \/ \* rglob raised OSError: caught at line 129
          /\ cache_files' = <<>>
          /\ pc' = AfterCycleError
          /\ outcome' = "error"
    /\ UNCHANGED <<config, fs, fs0, cache_usage, usageOk, ledgerVars, loopVars,
                   callVars, mvRuns>>

\* lines 120-124: the loops advance to the next matching pair and call
\* move_file for it
CallMoveFile ==
    /\ pc = "loop"
    /\ MatchesFrom(played_items, cache_files, i, j) # {}
    /\ LET q == NextMatch(played_items, cache_files, i, j)
       IN /\ i' = q[1]
          /\ j' = q[2]
          /\ source_path' = cache_files[q[2]]
          /\ dest_path' = DestPath(cache_files[q[2]])
          /\ moveCalls' = Append(moveCalls, cache_files[q[2]])
    /\ mkdirAttempts' = 0
    /\ mkdirLast' = "none"
    /\ mvResult' = "none"
    /\ ret' = "running"
    /\ pc' = "makedirs"
    /\ UNCHANGED <<config, fs, fs0, cache_usage, usageOk, ledgerVars, scanVars,
                   moved_count, mvRuns, outcome>>

\* lines 94-96 and 102-104: one execution of move_file's body up to
\* os.makedirs; an OSError is re-raised and retried by tenacity, and the
\* RetryError of the last attempt ends check_and_move at line 129
Makedirs ==
    /\ pc = "makedirs"
    /\ \E r \in MakedirsResults :
         LET n == mkdirAttempts + 1
             d == RetryDecision(MakedirsRaises(r), n)
         IN /\ mkdirAttempts' = n
            /\ mkdirLast' = r
            /\ pc' = CASE d = "return" -> "mv"
                       [] d = "retry"  -> "makedirs"
                       [] OTHER        -> AfterCycleError
            /\ ret' = IF d = "raise" THEN "raised" ELSE ret
            /\ outcome' = IF d = "raise" THEN "error" ELSE outcome
    /\ UNCHANGED <<config, fs, fs0, cache_usage, usageOk, ledgerVars, scanVars,
                   loopVars, moveCalls, source_path, dest_path, mvResult,
                   mvRuns>>

\* lines 99-101 and 124-125: the mv command, return True, moved_count += 1
Mv ==
    /\ pc = "mv"
    /\ \E r \in MvResults(fs, source_path, dest_path) :
         /\ fs' = MvEffect(fs, source_path, dest_path, r)
         /\ mvResult' = r
         /\ ret' = IF MoveFileReturn(r) THEN "true" ELSE "false"
         /\ moved_count' = IF MoveFileReturn(r) THEN moved_count + 1
                           ELSE moved_count
    /\ mvRuns' = mvRuns + 1
    /\ j' = j + 1
    /\ pc' = "loop"
    /\ UNCHANGED <<config, fs0, cache_usage, usageOk, ledgerVars, scanVars, i,
                   moveCalls, source_path, dest_path, mkdirAttempts, mkdirLast,
                   outcome>>

\* line 127: the loops are over, logger.info(f"Moved {moved_count} files")
Report ==
    /\ pc = "loop"
    /\ MatchesFrom(played_items, cache_files, i, j) = {}
    /\ outcome' = "summary"
    /\ pc' = "idle"
    /\ UNCHANGED <<config, fs, fs0, cache_usage, usageOk, ledgerVars, scanVars,
                   loopVars, callVars, mvRuns>>

Next ==
    \/ Startup
    \/ CheckPressure
    \/ GetPlayedItems
    \/ ScanCache
    \/ CallMoveFile
    \/ Makedirs
    \/ Mv
    \/ Report

Spec == Init /\ [][Next]_vars

\* main and check_and_move are one sequential thread: as long as the calls it
\* makes return (sleep, psutil, requests, rglob, makedirs, mv), the next
\* statement is executed. The liveness properties are checked for the daemon
\* running with the default cache_threshold on a cache that holds at most the
\* one media file every item name matches.
LiveInit ==
    /\ Init
    /\ cache_threshold = DefaultThreshold
    /\ fs[FileAbMp4] = "absent"
FairSpec == LiveInit /\ [][Next]_vars /\ WF_vars(Next)

----------------------------------------------------------------------------
(* The destination path as a pure function: DestSpec draws a cache path and
   applies line 123 to it *)

\* path segments: /a, /mnt/cache, /b.mkv
Segments == { <<"/", "a">>, cache_path, <<"/", "b", ".", "m", "k", "v">> }

RECURSIVE Concat(_)
Concat(segs) == IF segs = <<>> THEN <<>> ELSE Head(segs) \o Concat(Tail(segs))

\* the paths under cache_path made of 1..MaxSegments segments
PathInputs ==
    {cache_path \o Concat(segs) :
        segs \in UNION {[1..n -> Segments] : n \in 1..MaxSegments}}

DestInit ==
    /\ pc = "plan"
    /\ source_path \in PathInputs
    /\ dest_path = NoPath
    /\ jellyfin_url = "http://jellyfin"
    /\ jellyfin_api_key = "key"
    /\ cache_threshold = DefaultThreshold
    /\ fs = [p \in AllPaths |-> IF p \in CachePaths THEN "complete" ELSE "absent"]
    /\ fs0 = fs
    /\ cache_usage = 0
    /\ usageOk = TRUE
    /\ ledgerAttempts = 0
    /\ ledgerLast = "none"
    /\ played_items = <<>>
    /\ cache_files = <<>>
    /\ scans = 0
    /\ i = 1
    /\ j = 1
    /\ moveCalls = <<>>
    /\ mkdirAttempts = 0
    /\ mkdirLast = "none"
    /\ mvResult = "none"
    /\ ret = "none"
    /\ mvRuns = 0
    /\ moved_count = 0
    /\ outcome = "none"

\* line 123 applied to str(cache_file) = source_path
ComputeDest ==
    /\ pc = "plan"
    /\ dest_path' = DestPath(source_path)
    /\ pc' = "planned"
    /\ UNCHANGED <<config, fs, fs0, cache_usage, usageOk, ledgerVars, scanVars,
                   loopVars, moveCalls, source_path, mkdirAttempts, mkdirLast,
                   mvResult, ret, mvRuns, outcome>>

DestSpec == DestInit /\ [][ComputeDest]_vars

TypeOK ==
    /\ pc \in {"start", "exited", "idle", "ledger", "scan", "loop",
               "makedirs", "mv", "plan", "planned"}
    /\ cache_threshold \in Thresholds
    /\ fs \in [AllPaths -> {"absent", "partial", "complete"}]
    /\ moved_count \in Nat
    /\ mkdirAttempts \in 0..MaxAttempts
    /\ ledgerAttempts \in 0..MaxAttempts

----------------------------------------------------------------------------
(* Properties *)

\* a move_file call is planned for path p in the current cycle
Attempted(p) == \E k \in DOMAIN moveCalls : moveCalls[k] = p

\* the cache files of this cycle's scan that some played item matches
MatchedFiles ==
    {cache_files[b] : b \in {b \in DOMAIN cache_files :
        \E a \in DOMAIN played_items : Matches(played_items[a], cache_files[b])}}

\* the paths that were whole on the cache at cycle start and are now gone
\* from it and whole on the array
Relocated ==
    {p \in MediaPaths : /\ fs0[p] = "complete"
                        /\ fs[p] = "absent"
                        /\ fs[DestPath(p)] = "complete"}

\* C1: in a cycle whose measured usage is strictly below cache_threshold
\* there is no ledger request, no scan and no call of move_file.
C1_BelowThresholdNoAction ==
    (pc \notin {"start", "exited"} /\ cache_usage < cache_threshold)
        => /\ ledgerAttempts = 0
           /\ scans = 0
           /\ moveCalls = <<>>
           /\ mvRuns = 0
           /\ fs = fs0

\* a below-threshold cycle that follows a cycle which moved a file
C1_Witness ==
    /\ pc = "idle"
    /\ outcome = "below"
    /\ usageOk
    /\ cache_usage < cache_threshold
    /\ \E p \in MediaPaths : fs[p] = "absent" /\ fs[DestPath(p)] = "complete"

\* C2: every file that was whole on the cache and absent from the array when
\* the cycle started is, whatever the relocations did, either whole at the
\* source with nothing at the destination or whole at the destination with
\* nothing at the source.
C2_TwoEndStates ==
    \A p \in MediaPaths :
        (fs0[p] = "complete" /\ fs0[DestPath(p)] = "absent")
            => <<fs[p], fs[DestPath(p)]>> \in
                   {<<"complete", "absent">>, <<"absent", "complete">>}

\* C3: move_file reports success only when the transfer completed, and
\* moved_count counts no relocation whose transfer failed.
C3_SuccessOnlyWhenMoved ==
    /\ ret = "true" => /\ mvResult = "ok"
                       /\ fs[source_path] = "absent"
                       /\ fs[dest_path] = "complete"
    /\ moved_count <= Cardinality(Relocated)

\* C4: within a cycle move_file is called at most once per source path.
C4_NoDuplicateMoves ==
    \A a, b \in DOMAIN moveCalls : a # b => moveCalls[a] # moveCalls[b]

\* C5: a cycle in which a move_file call failed after its retries still
\* attempts every other matched file and ends with its summary.
C5_FailureIsolated ==
    (pc = "idle" /\ ret = "raised")
        => /\ outcome = "summary"
           /\ \A p \in MatchedFiles : Attempted(p)

\* C6: a cycle whose usage measurement failed never ends with the
\* "below threshold, no action needed" outcome.
C6_FailedMeasurementDistinct == ~usageOk => outcome # "below"

\* C7: a cycle whose usage measurement failed never reaches the ledger,
\* the scan or a move, whatever cache_threshold is.
C7_FailedCheckNeverPlans ==
    ~usageOk => /\ pc \notin {"ledger", "scan", "loop", "makedirs", "mv"}
                /\ ledgerAttempts = 0
                /\ scans = 0
                /\ moveCalls = <<>>
                /\ mvRuns = 0

\* C8: as long as no ledger attempt of the cycle has succeeded, and so in a
\* cycle whose every attempt failed, no move is attempted and no file moves.
C8_LedgerFailedNoMove ==
    ledgerLast # "ok" => /\ moveCalls = <<>>
                         /\ mvRuns = 0
                         /\ fs = fs0

\* a cycle that ended after MaxAttempts failed ledger requests while a file
\* that every item name matches was on the cache
C8_Witness ==
    /\ pc = "idle"
    /\ ledgerAttempts = MaxAttempts
    /\ ledgerLast \in {"transient", "auth", "malformed"}
    /\ outcome = "error"
    /\ fs[FileAbMkv] = "complete"

\* C9: a second or third attempt of the ledger request or of move_file is
\* made only after a transient failure.
C9_NonRetryableNotRetried ==
    [][/\ (ledgerAttempts >= 1 /\ ledgerAttempts' = ledgerAttempts + 1)
            => ledgerLast = "transient"
       /\ (mkdirAttempts >= 1 /\ mkdirAttempts' = mkdirAttempts + 1)
            => mkdirLast = "transient"]_vars

\* C10: mv runs only after os.makedirs succeeded in the same attempt, and an
\* attempt whose os.makedirs failed runs no mv and leaves the files alone.
C10_MvOnlyAfterMakedirs ==
    [][/\ mvRuns' = mvRuns + 1 => (pc = "mv" /\ mkdirLast = "ok")
       /\ (mkdirAttempts' = mkdirAttempts + 1 /\ mkdirLast' # "ok")
            => (fs' = fs /\ mvRuns' = mvRuns /\ pc' # "mv")]_vars

\* a move_file call whose first attempt failed in os.makedirs and whose
\* second attempt ran mv
C10_Witness ==
    /\ pc = "loop"
    /\ mkdirAttempts = 2
    /\ mkdirLast = "ok"
    /\ mvResult = "ok"
    /\ fs[source_path] = "absent"

\* C11: the destination computed for a path under the cache root is the
\* array root followed by the path's remainder after its leading cache root,
\* verbatim, also when the remainder contains the cache-root string.
C11_PrefixOnlySubstitution ==
    pc = "planned"
        => dest_path = array_path \o SubSeq(source_path, Len(cache_path) + 1,
                                            Len(source_path))

\* sub occurs in s as a contiguous run of equal characters
OccursIn(sub, s) ==
    \E off \in 0..Len(s) :
        /\ off + Len(sub) <= Len(s)
        /\ \A k \in 1..Len(sub) : s[off + k] = sub[k]

\* OccursIn tabulated over the item names and cache paths of the model
OccursTable == [n \in ItemNames |-> {p \in CachePaths : OccursIn(n, p)}]
Occurs(n, p) == p \in OccursTable[n]

\* C12: move_file is called for a file only if the name of some played item
\* occurs, case-sensitively, in its path; and when the ledger succeeded and
\* no move_file call raised, it is called for every scanned file in whose
\* path such a name occurs.
C12_MatchIsSubstring ==
    /\ \A k \in DOMAIN moveCalls :
          \E a \in DOMAIN played_items : Occurs(played_items[a], moveCalls[k])
    /\ (pc = "idle" /\ ledgerLast = "ok" /\ ret # "raised")
          => \A b \in DOMAIN cache_files :
                (\E a \in DOMAIN played_items :
                     Occurs(played_items[a], cache_files[b]))
                    => Attempted(cache_files[b])

\* a finished cycle with the item "Ab" and both media files scanned: the
\* .mkv was attempted, ab.mp4 (case mismatch) was not
C12_Witness ==
    /\ pc = "idle"
    /\ outcome = "summary"
    /\ played_items = <<NameAb>>
    /\ Len(cache_files) = 2
    /\ moveCalls = <<FileAbMkv>>

\* the positions inside check_and_move, and those of a running daemon
InCycle == {"ledger", "scan", "loop", "makedirs", "mv"}
Running == InCycle \cup {"idle"}

\* a cycle is running or has run
CycleSeen == pc \in InCycle \/ (pc = "idle" /\ outcome # "none")

\* the (source, destination) pairs as a function of the played items and
\* the scanned files alone: the matching (item, file) positions in the order
\* of the nested loops
PlanOf(items, files) ==
    LET n == Len(items) * Len(files)
        all == [k \in 1..n |-> << ((k - 1) \div Len(files)) + 1,
                                  ((k - 1) % Len(files)) + 1 >>]
        sel == SelectSeq(all, LAMBDA q : Occurs(items[q[1]], files[q[2]]))
    IN [k \in DOMAIN sel |->
           << files[sel[k][2]], DestPath(files[sel[k][2]]) >>]

\* C13: a cycle whose usage is at or above cache_threshold goes on to the
\* ledger, and the calls of move_file it makes are those of PlanOf on its
\* played items and scanned files: all of them when it reaches its summary.
C13_PlanDeterministic ==
    /\ (CycleSeen /\ cache_usage >= cache_threshold)
          => (pc = "ledger" \/ ledgerAttempts >= 1)
    /\ LET plan == PlanOf(played_items, cache_files)
       IN /\ Len(moveCalls) <= Len(plan)
          /\ \A k \in DOMAIN moveCalls : moveCalls[k] = plan[k][1]
          /\ moveCalls # <<>>
                => <<source_path, dest_path>> = plan[Len(moveCalls)]
          /\ (pc = "idle" /\ outcome = "summary")
                => Len(moveCalls) = Len(plan)

\* a cycle at exactly the threshold that planned the same file twice and
\* whose first move took the file off the cache
C13_Witness ==
    /\ pc = "idle"
    /\ outcome = "summary"
    /\ usageOk
    /\ cache_usage = cache_threshold
    /\ moveCalls = <<FileAbMkv, FileAbMkv>>
    /\ fs[FileAbMkv] = "absent"

\* C14: a file whose earlier relocation failed (it is whole on the cache
\* while a copy, partial or whole, lies on the array when the cycle starts)
\* is still on the cache, and a cycle in which the ledger succeeded, the scan
\* listed it and a played item matches it calls move_file for it; and every
\* attempted file is whole at its cache path or whole on the array.
C14_FailedFileRetried ==
    \A p \in MediaPaths :
        /\ (/\ pc = "idle"
            /\ outcome # "none"
            /\ ledgerLast = "ok"
            /\ fs0[p] = "complete"
            /\ fs0[DestPath(p)] # "absent"
            /\ \E b \in DOMAIN cache_files : cache_files[b] = p
            /\ \E a \in DOMAIN played_items : Matches(played_items[a], p))
              => Attempted(p)
        /\ Attempted(p) => (fs[p] = "complete" \/ fs[DestPath(p)] = "complete")

\* C15: every cycle at or above the threshold ends with the one summary
\* line before returning to idle.
C15_OneResultPerCycle ==
    (pc = "idle" /\ outcome # "none" /\ cache_usage >= cache_threshold)
        => outcome = "summary"

\* C16: once startup succeeded the daemon never exits, whatever fails inside
\* a cycle, and from every point a cycle is eventually started again.
C16_DaemonSurvives ==
    /\ [][(pc \in Running) => (pc' \in Running)]_vars
    /\ ConfigComplete(jellyfin_url, jellyfin_api_key)
           => []<><<CheckPressure>>_vars

\* a cycle that ended through the except of line 129 after move_file raised
C16_Witness ==
    /\ pc = "idle"
    /\ outcome = "error"
    /\ ret = "raised"
    /\ mkdirAttempts = MaxAttempts

\* C18: a cycle makes at most 3 ledger requests, a move_file call executes
\* its body at most 3 times, and every started cycle returns to idle.
C18_CycleTerminates ==
    /\ [](ledgerAttempts <= 3 /\ mkdirAttempts <= 3)
    /\ (pc \in InCycle) ~> (pc = "idle")

\* a cycle that used all 3 ledger attempts, the last one succeeding, and
\* all 3 attempts of a move_file call, and ended with its summary
C18_Witness ==
    /\ pc = "idle"
    /\ outcome = "summary"
    /\ ledgerAttempts = 3
    /\ mkdirAttempts = 3
    /\ mvRuns >= 1

\* C17: with an empty URL or API key the process never gets past startup:
\* no usage check, ledger request, scan or move ever happens.
C17_MissingCredentialsFatal ==
    (jellyfin_url = "" \/ jellyfin_api_key = "")
        => /\ pc \in {"start", "exited"}
           /\ outcome = "none"
           /\ ledgerAttempts = 0
           /\ scans = 0
           /\ moveCalls = <<>>
           /\ mvRuns = 0
           /\ fs = fs0

\* the process exited at startup with a URL but no API key
C17_Witness ==
    /\ pc = "exited"
    /\ jellyfin_url # ""
    /\ jellyfin_api_key = ""

\* C19: moved_count never exceeds the number of distinct files the scan
\* listed nor the number of files that left the cache during the cycle.
C19_CountBounded ==
    /\ moved_count <= Cardinality({cache_files[b] : b \in DOMAIN cache_files})
    /\ moved_count <= Cardinality({p \in MediaPaths :
                                      fs0[p] # "absent" /\ fs[p] = "absent"})

\* p is root followed by "/" and at least one more character
Under(p, root) ==
    /\ Len(p) > Len(root) + 1
    /\ \A k \in 1..Len(root) : p[k] = root[k]
    /\ p[Len(root) + 1] = "/"

\* p ends in .mp4, .mkv, .avi or .m4v
HasMediaExtension(p) ==
    /\ Len(p) >= 4
    /\ <<p[Len(p) - 3], p[Len(p) - 2], p[Len(p) - 1], p[Len(p)]>> \in
         { <<".", "m", "p", "4">>, <<".", "m", "k", "v">>,
           <<".", "a", "v", "i">>, <<".", "m", "4", "v">> }

\* the cache paths of the model that lie under /mnt/cache and have a media
\* extension
MediaUnderCache ==
    {p \in CachePaths : Under(p, cache_path) /\ HasMediaExtension(p)}

\* C20: every call of move_file has a source under /mnt/cache with a media
\* extension and a destination under /mnt/user that is not the source.
C20_MovesWithinTiers ==
    /\ \A k \in DOMAIN moveCalls : moveCalls[k] \in MediaUnderCache
    /\ moveCalls # <<>>
          => /\ source_path = moveCalls[Len(moveCalls)]
             /\ Under(dest_path, array_path)
             /\ dest_path # source_path

\* the item "b" matches /mnt/cache/b.txt too, which is on the cache, and the
\* cycle moved ab.mp4
C20_Witness ==
    /\ pc = "loop"
    /\ \E a \in DOMAIN played_items : played_items[a] = NameB
    /\ fs[FileTxt] = "complete"
    /\ source_path = FileAbMp4
    /\ mvResult = "ok"
    /\ fs[dest_path] = "complete"
====
